---- MODULE Spec2Model ----
(***************************************************************************)
(* Model of src/src/api/memory/android/Hook.cpp: the registry of hook      *)
(* chains (hook, unhook, unhookAll over HookData/HookElement) and the      *)
(* address resolver (resolveIdentifier).                                   *)
(*                                                                         *)
(* Addresses are integers.  Null is the null pointer; targets, detours,    *)
(* caller-owned originalFunc slots, the entry points the engine reports    *)
(* and the engine's stubs are drawn from disjoint small ranges.            *)
(*                                                                         *)
(* The engine (libshadowhook) is outside the repository: each call of      *)
(* shadowhook_hook_func_addr yields one of EngineResults.  The block at    *)
(* the head of hook() that loads and initialises the engine (lines 94-111) *)
(* touches only the engine's side and hook()'s static flag, which nothing  *)
(* else reads; it is part of the engine here.                              *)
(***************************************************************************)
EXTENDS Integers, Sequences, FiniteSets, TLC

\* ---------------------------------------------------------------- bounds
\* sequence ids one chain may hand out (SpecChain: one target)
MaxHookId == 2
\* sequence ids the chains of the registry may hold together (Spec: all targets)
MaxRegistryIds == 2
\* sequence ids one chain may hand out when threads interleave (SpecThreads)
MaxThreadIds == 1

Null == 0
\* "nothing was stored through the pointer"
NoWrite == -1

Targets == {1, 2}
OneTarget == {1}
Detours == {11, 12}
Slots == {21, 22}
Origins == {31, 32}
Handles == {41, 42}
Priorities == {0, 1}
\* the threads that call into the registry
Threads == {1, 2}

VARIABLES
    hooks,      \* getHooks(): target -> HookData
    mem,        \* contents of the caller-owned originalFunc slots
    last,       \* the last call: its arguments, return value and effects in order
    initialized, \* resolveIdentifier's static bool initialized
    base,       \* resolveIdentifier's static uintptr_t base
    size,       \* resolveIdentifier's static size_t size
    maps,       \* the rows of /proc/self/maps as they are now
    rlast,      \* the last resolveIdentifier call: arguments, result, matcher calls
    hooksB,     \* SpecUndo: the registry of the run in which x is never installed
    memB,       \* SpecUndo: the slots of that run
    xphase,     \* SpecUndo: whether x is not yet installed, in the chain or removed
    mutex,      \* hooksMutex: the thread that owns it, Null when it is free
    pc          \* where each thread is: outside, at the lock_guard, or past it

hookVars == <<hooks, mem, last>>
resolverVars == <<initialized, base, size, maps, rlast>>
undoVars == <<hooksB, memB, xphase>>
threadVars == <<mutex, pc>>
vars == <<hooks, mem, last, initialized, base, size, maps, rlast, hooksB, memB, xphase,
          mutex, pc>>

\* ------------------------------------------------------- HookElement
\* HookElement::operator<
Less(a, b) ==
    IF a.priority # b.priority THEN a.priority < b.priority ELSE a.id < b.id

\* std::set<HookElement>::insert: an element equivalent under operator< is kept out
SetInsert(S, e) ==
    IF \E o \in S : ~Less(o, e) /\ ~Less(e, o) THEN S ELSE S \cup {e}

MinElem(S) == CHOOSE e \in S : \A o \in S \ {e} : Less(e, o)

RECURSIVE Ordered(_)
\* iteration order of std::set<HookElement>
Ordered(S) ==
    IF S = {} THEN <<>>
    ELSE LET m == MinElem(S) IN <<m>> \o Ordered(S \ {m})

\* ------------------------------------------------------------ events
WriteEv(addr, val) ==
    [kind |-> "write", target |-> Null, addr |-> addr, val |-> val, stub |-> Null]
InstallEv(target, detour, stub, orig) ==
    [kind |-> "install", target |-> target, addr |-> detour, val |-> orig, stub |-> stub]
UninstallEv(stub) ==
    [kind |-> "uninstall", target |-> Null, addr |-> Null, val |-> Null, stub |-> stub]

\* ---------------------------------------------------------- HookData
\* the slot writes of HookData::updateCallList, in program order
CallListWrites(hd) ==
    LET s == Ordered(hd.hooks)
        n == Len(s)
    IN  IF n = 0 THEN <<>>
        ELSE <<WriteEv(s[1].originalFunc, hd.origin)>>
             \o [i \in 1 .. (n - 1) |-> WriteEv(s[i].originalFunc, s[i + 1].detour)]
             \o <<WriteEv(s[n].originalFunc, hd.origin)>>

\* the value updateCallList leaves in this->start
CallListStart(hd) ==
    IF hd.hooks = {} THEN hd.origin ELSE MinElem(hd.hooks).detour

RECURSIVE ApplyWrites(_, _)
ApplyWrites(m, ws) ==
    IF ws = <<>> THEN m
    ELSE ApplyWrites([m EXCEPT ![Head(ws).addr] = Head(ws).val], Tail(ws))

\* HookData::updateCallList applied to hd
updateCallList(hd) == [hd EXCEPT !.start = CallListStart(hd)]

\* faulty variant: the counter is read but not advanced
hookIdNotAdvanced(hd) == hd.hookId

\* HookData::incrementHookId
incrementHookId(hd) == hd.hookId + 1

\* ------------------------------------------------------------ engine
\* outcomes of shadowhook_hook_func_addr: the stub it returns (Null on failure)
\* and what it stores through orig_addr (NoWrite: nothing, when it fails)
EngineResults ==
    [stub : Handles, orig : Origins] \cup [stub : {Null}, orig : {NoWrite}]

Stored(old, res) == IF res.orig = NoWrite THEN old ELSE res.orig

\* what a call leaves to observe: its name, target and detour arguments, its
\* return value (bool as 0/1) and its slot writes and engine calls in order
Call(op, target, detour, ret, trace) ==
    [op |-> op, target |-> target, detour |-> detour, ret |-> ret, trace |-> trace]

\* ------------------------------------------------------------- Init
InitHooks ==
    /\ hooks = <<>>
    /\ mem = [s \in Slots |-> Null]
    /\ last = Call("none", Null, Null, 0, <<>>)

\* the statics of resolveIdentifier(const char *) before its first call
InitStatics ==
    /\ initialized = FALSE
    /\ base = 0
    /\ size = 0
    /\ rlast = [op |-> "none", ids |-> <<>>, ret |-> Null, calls |-> <<>>]

\* the second run of SpecUndo starts like the first
InitUndo ==
    /\ hooksB = <<>>
    /\ memB = [s \in Slots |-> Null]
    /\ xphase = "out"

\* hooksMutex is free and no thread is inside a call
InitThreads ==
    /\ mutex = Null
    /\ pc = [th \in Threads |-> "idle"]

Init ==
    /\ InitHooks
    /\ InitStatics
    /\ InitUndo
    /\ InitThreads
    /\ maps = <<>>

Registered == DOMAIN hooks

RECURSIVE SumIds(_)
SumIds(T) ==
    IF T = {} THEN 0
    ELSE LET t == CHOOSE x \in T : TRUE IN hooks[t].hookId + SumIds(T \ {t})

\* sequence ids handed out to the chains now in the registry
IdsInUse == SumIds(Registered)

Put(f, k, v) == [x \in (DOMAIN f) \cup {k} |-> IF x = k THEN v ELSE f[x]]
Drop(f, k) == [x \in (DOMAIN f) \ {k} |-> f[x]]

\* ------------------------------------------------------------- hook
Element(detour, originalFunc, priority, id) ==
    [detour |-> detour, originalFunc |-> originalFunc, priority |-> priority, id |-> id]

\* Each call is a function of the registry and the slot memory it runs on; it
\* yields the registry and memory it leaves and what it did.
Outcome(reg, m, call) == [hooks |-> reg, mem |-> m, call |-> call]

\* hook() on a target that has a chain (lines 116-124)
HookExisting(reg, m, target, detour, originalFunc, priority, res) ==
    LET hd0 == reg[target]
        id == incrementHookId(hd0)
        hd1 == [hd0 EXCEPT !.hookId = id,
                           !.hooks = SetInsert(hd0.hooks,
                                         Element(detour, originalFunc, priority, id))]
        ws == CallListWrites(hd1)
        hd2 == updateCallList(hd1)
        hd3 == [hd2 EXCEPT !.origin = Stored(hd2.origin, res)]
    IN  Outcome([reg EXCEPT ![target] = hd3],
                ApplyWrites(m, ws),
                Call("hook", target, detour, 0,
                     ws \o <<InstallEv(target, hd2.start, res.stub, res.orig)>>))

\* hook() on a target that has no chain (lines 126-139)
HookFirst(reg, m, target, detour, originalFunc, priority, res) ==
    LET hd0 == [target |-> target, origin |-> Stored(Null, res), start |-> detour,
                stub |-> res.stub, hookId |-> 0, hooks |-> {}]
        id == incrementHookId(hd0)
        hd1 == [hd0 EXCEPT !.hookId = id,
                           !.hooks = SetInsert(hd0.hooks,
                                         Element(detour, originalFunc, priority, id))]
        ev == InstallEv(target, detour, res.stub, res.orig)
        ws == CallListWrites(hd1)
    IN  IF hd1.stub = Null
        THEN Outcome(reg, m, Call("hook", target, detour, -1, <<ev>>))
        ELSE Outcome(Put(reg, target, updateCallList(hd1)),
                     ApplyWrites(m, ws),
                     Call("hook", target, detour, 0, <<ev>> \o ws))

\* hook(target, detour, originalFunc, priority, suspendThreads) run on (reg, m)
HookCall(reg, m, target, detour, originalFunc, priority, res) ==
    IF target \in DOMAIN reg
    THEN HookExisting(reg, m, target, detour, originalFunc, priority, res)
    ELSE HookFirst(reg, m, target, detour, originalFunc, priority, res)

\* hook() called with a target in T
hook(T, cap) ==
    \E target \in T, detour \in Detours, originalFunc \in Slots,
       priority \in Priorities, res \in EngineResults :
        /\ IdsInUse < cap
        /\ LET out == HookCall(hooks, mem, target, detour, originalFunc, priority, res)
           IN  /\ hooks' = out.hooks
               /\ mem' = out.mem
               /\ last' = out.call
        /\ UNCHANGED <<resolverVars, undoVars, threadVars>>

\* ----------------------------------------------------------- unhook
\* faulty variant: the match registered first, whatever its priority
FirstRegisteredMatch(hd, detour) ==
    CHOOSE e \in hd.hooks :
        /\ e.detour = detour
        /\ \A o \in hd.hooks : o.detour = detour => e.id <= o.id

\* the element the loop of unhook() erases: the first match in set order
FirstMatch(hd, detour) ==
    MinElem({e \in hd.hooks : e.detour = detour})

\* the three ways unhook() returns false (lines 145-150, 170)
NotFound(reg, target, detour) ==
    \/ target = Null
    \/ target \notin DOMAIN reg
    \/ \A e \in reg[target].hooks : e.detour # detour

\* faulty variant: a miss on a target that has a chain recomputes and re-installs it
UnhookMissRewires(reg, m, target, detour) ==
    IF target \in DOMAIN reg
    THEN LET ws == CallListWrites(reg[target])
         IN  Outcome(reg, ApplyWrites(m, ws),
                     Call("unhook", target, detour, 0,
                          ws \o <<InstallEv(target, reg[target].start, Null, NoWrite)>>))
    ELSE Outcome(reg, m, Call("unhook", target, detour, 0, <<>>))

UnhookMiss(reg, m, target, detour) ==
    Outcome(reg, m, Call("unhook", target, detour, 0, <<>>))

\* faulty variant: the emptied chain is erased without the engine's uninstall
UnhookHitNoUninstall(reg, m, target, detour, res) ==
    LET hd0 == reg[target]
        hd1 == [hd0 EXCEPT !.hooks = hd0.hooks \ {FirstMatch(hd0, detour)}]
        ws == CallListWrites(hd1)
        hd2 == updateCallList(hd1)
    IN  IF hd2.hooks = {}
        THEN Outcome(Drop(reg, target), ApplyWrites(m, ws),
                     Call("unhook", target, detour, 1, ws))
        ELSE Outcome([reg EXCEPT ![target] =
                         [hd2 EXCEPT !.origin = Stored(hd2.origin, res)]],
                     ApplyWrites(m, ws),
                     Call("unhook", target, detour, 1,
                          ws \o <<InstallEv(target, hd2.start, res.stub, res.orig)>>))

\* faulty variant: the emptied chain is uninstalled but stays in the registry
UnhookHitNoErase(reg, m, target, detour, res) ==
    LET hd0 == reg[target]
        hd1 == [hd0 EXCEPT !.hooks = hd0.hooks \ {FirstMatch(hd0, detour)}]
        ws == CallListWrites(hd1)
        hd2 == updateCallList(hd1)
    IN  IF hd2.hooks = {}
        THEN Outcome([reg EXCEPT ![target] = hd2], ApplyWrites(m, ws),
                     Call("unhook", target, detour, 1, ws \o <<UninstallEv(hd2.stub)>>))
        ELSE Outcome([reg EXCEPT ![target] =
                         [hd2 EXCEPT !.origin = Stored(hd2.origin, res)]],
                     ApplyWrites(m, ws),
                     Call("unhook", target, detour, 1,
                          ws \o <<InstallEv(target, hd2.start, res.stub, res.orig)>>))

\* faulty variant: the removed entry's slot is reset to the origin
UnhookHitResetsSlot(reg, m, target, detour, res) ==
    LET hd0 == reg[target]
        x == FirstMatch(hd0, detour)
        hd1 == [hd0 EXCEPT !.hooks = hd0.hooks \ {x}]
        ws == CallListWrites(hd1) \o <<WriteEv(x.originalFunc, hd0.origin)>>
        hd2 == updateCallList(hd1)
    IN  IF hd2.hooks = {}
        THEN Outcome(Drop(reg, target), ApplyWrites(m, ws),
                     Call("unhook", target, detour, 1, ws \o <<UninstallEv(hd2.stub)>>))
        ELSE Outcome([reg EXCEPT ![target] =
                         [hd2 EXCEPT !.origin = Stored(hd2.origin, res)]],
                     ApplyWrites(m, ws),
                     Call("unhook", target, detour, 1,
                          ws \o <<InstallEv(target, hd2.start, res.stub, res.orig)>>))

\* the body of the loop of unhook() once a match is found (lines 156-166)
UnhookHit(reg, m, target, detour, res) ==
    LET hd0 == reg[target]
        hd1 == [hd0 EXCEPT !.hooks = hd0.hooks \ {FirstMatch(hd0, detour)}]
        ws == CallListWrites(hd1)
        hd2 == updateCallList(hd1)
    IN  IF hd2.hooks = {}
        THEN Outcome(Drop(reg, target), ApplyWrites(m, ws),
                     Call("unhook", target, detour, 1, ws \o <<UninstallEv(hd2.stub)>>))
        ELSE Outcome([reg EXCEPT ![target] =
                         [hd2 EXCEPT !.origin = Stored(hd2.origin, res)]],
                     ApplyWrites(m, ws),
                     Call("unhook", target, detour, 1,
                          ws \o <<InstallEv(target, hd2.start, res.stub, res.orig)>>))

\* unhook(target, detour, suspendThreads) run on (reg, m)
UnhookCall(reg, m, target, detour, res) ==
    IF NotFound(reg, target, detour)
    THEN UnhookMiss(reg, m, target, detour)
    ELSE UnhookHit(reg, m, target, detour, res)

\* whether this unhook() reaches the engine install of line 163
Reinstalls(reg, target, detour) ==
    /\ ~NotFound(reg, target, detour)
    /\ Cardinality(reg[target].hooks) > 1

\* the engine outcomes that matter to unhook(target, detour) on reg
UnhookEngineResults(reg, target, detour) ==
    IF Reinstalls(reg, target, detour)
    THEN EngineResults
    ELSE {CHOOSE r \in EngineResults : TRUE}

\* unhook() called with a target in T or with the null target
unhook(T) ==
    \E target \in T \cup {Null}, detour \in Detours :
        \E res \in UnhookEngineResults(hooks, target, detour) :
            /\ LET out == UnhookCall(hooks, mem, target, detour, res)
               IN  /\ hooks' = out.hooks
                   /\ mem' = out.mem
                   /\ last' = out.call
            /\ UNCHANGED <<resolverVars, undoVars, threadVars>>

\* -------------------------------------------------------- unhookAll
RECURSIVE Orders(_)
\* the orders in which an unordered_map of these keys may be iterated
Orders(T) ==
    IF T = {} THEN {<<>>}
    ELSE UNION {{<<t>> \o o : o \in Orders(T \ {t})} : t \in T}

\* faulty variant: the map is cleared after the first chain alone was uninstalled
unhookAllFirstOnly ==
    \E order \in Orders(Registered) :
        /\ hooks' = <<>>
        /\ last' = Call("unhookAll", Null, Null, 0,
                         [i \in 1 .. (IF Len(order) > 1 THEN 1 ELSE Len(order))
                              |-> UninstallEv(hooks[order[i]].stub)])
        /\ UNCHANGED mem
        /\ UNCHANGED <<resolverVars, undoVars, threadVars>>

unhookAll ==
    \E order \in Orders(Registered) :
        /\ hooks' = <<>>
        /\ last' = Call("unhookAll", Null, Null, 0,
                         [i \in 1 .. Len(order) |-> UninstallEv(hooks[order[i]].stub)])
        /\ UNCHANGED mem
        /\ UNCHANGED <<resolverVars, undoVars, threadVars>>

\* --------------------------------------------------------- resolver
\* identifiers (names or signatures) a caller may pass
Identifiers == {1, 2}
\* addresses the signature matcher may report
Matches == {201, 202}
\* longest identifier list passed to resolveIdentifier
MaxIdentifiers == 3

\* /proc/self/maps as the process may find it: rows (start, end, whether the
\* line names libminecraftpe.so)
Row(start, end, lib) == [start |-> start, end |-> end, lib |-> lib]
MapChoices ==
    { <<>>,
      <<Row(50, 60, FALSE)>>,
      <<Row(50, 60, FALSE), Row(100, 110, TRUE)>>,
      <<Row(100, 110, TRUE), Row(50, 60, FALSE), Row(110, 130, TRUE)>>,
      <<Row(100, 100, TRUE)>> }

RECURSIVE getLibBase(_)
\* getLibBase: the start of the first row that names the library, else 0
getLibBase(rows) ==
    IF rows = <<>> THEN 0
    ELSE IF Head(rows).lib THEN Head(rows).start
    ELSE getLibBase(Tail(rows))

RECURSIVE getLibSize(_)
\* getLibSize: the sum of end - start over the rows that name the library
getLibSize(rows) ==
    IF rows = <<>> THEN 0
    ELSE (IF Head(rows).lib THEN Head(rows).end - Head(rows).start ELSE 0)
         + getLibSize(Tail(rows))

\* faulty variant: the map is scanned on every call
StaticsRescanned(okBase, okSize) ==
    [initialized |-> TRUE,
     base |-> IF okBase THEN getLibBase(maps) ELSE 0,
     size |-> IF okSize THEN getLibSize(maps) ELSE 0]

\* the statics after the if (!initialized) block; okBase, okSize: whether
\* fopen succeeds in getLibBase and in getLibSize
Statics(okBase, okSize) ==
    IF initialized
    THEN [initialized |-> TRUE, base |-> base, size |-> size]
    ELSE [initialized |-> TRUE,
          base |-> IF okBase THEN getLibBase(maps) ELSE 0,
          size |-> IF okSize THEN getLibSize(maps) ELSE 0]

MatchCall(id, st, result) ==
    [id |-> id, base |-> st.base, size |-> st.size, result |-> result]

\* resolveIdentifier(const char *) once the statics are set; result is what
\* resolveSignature returns for this call (0: no match)
ResolveOne(st, id, result) ==
    IF st.base = 0 \/ st.size = 0
    THEN [ret |-> Null, calls |-> <<>>]
    ELSE [ret |-> result, calls |-> <<MatchCall(id, st, result)>>]

RECURSIVE ResolveListTriesAll(_, _, _)
\* faulty variant: the loop goes on after a success and returns the first success
ResolveListTriesAll(st, ids, results) ==
    IF ids = <<>> THEN [ret |-> Null, calls |-> <<>>]
    ELSE LET one == ResolveOne(st, Head(ids), Head(results))
             rest == ResolveListTriesAll(st, Tail(ids), Tail(results))
         IN  [ret |-> IF one.ret # Null THEN one.ret ELSE rest.ret,
              calls |-> one.calls \o rest.calls]

RECURSIVE ResolveList(_, _, _)
\* the loop of resolveIdentifier(std::initializer_list<const char *>);
\* results[i] is what resolveSignature would return for ids[i]
ResolveList(st, ids, results) ==
    IF ids = <<>> THEN [ret |-> Null, calls |-> <<>>]
    ELSE LET one == ResolveOne(st, Head(ids), Head(results))
         IN  IF one.ret # Null THEN one
             ELSE LET rest == ResolveList(st, Tail(ids), Tail(results))
                  IN  [ret |-> rest.ret, calls |-> one.calls \o rest.calls]

ScanFlags == IF initialized THEN {TRUE} ELSE BOOLEAN

\* resolveIdentifier(const char *identifier)
resolveIdentifier ==
    \E id \in Identifiers, result \in Matches \cup {0},
       okBase \in ScanFlags, okSize \in ScanFlags :
        LET st == Statics(okBase, okSize)
            r == ResolveOne(st, id, result)
        IN  /\ initialized' = st.initialized
            /\ base' = st.base
            /\ size' = st.size
            /\ rlast' = [op |-> "one", ids |-> <<id>>, ret |-> r.ret, calls |-> r.calls]
            /\ UNCHANGED <<maps, hookVars, undoVars, threadVars>>

IdentifierLists ==
    UNION {[1 .. n -> Identifiers] : n \in 0 .. MaxIdentifiers}

\* resolveIdentifier(std::initializer_list<const char *> identifiers)
resolveIdentifierList ==
    \E ids \in IdentifierLists, okBase \in ScanFlags, okSize \in ScanFlags :
        \E results \in [1 .. Len(ids) -> Matches \cup {0}] :
            LET st == IF ids = <<>>
                      THEN [initialized |-> initialized, base |-> base, size |-> size]
                      ELSE Statics(okBase, okSize)
                r == ResolveList(st, ids, results)
            IN  /\ initialized' = st.initialized
                /\ base' = st.base
                /\ size' = st.size
                /\ rlast' = [op |-> "list", ids |-> ids, ret |-> r.ret,
                              calls |-> r.calls]
                /\ UNCHANGED <<maps, hookVars, undoVars, threadVars>>

\* the process maps or unmaps something between two calls
MapsChange ==
    /\ maps' \in MapChoices \ {maps}
    /\ UNCHANGED <<initialized, base, size, rlast, hookVars, undoVars, threadVars>>

\* --------------------------------------------------- specifications
\* the registry over all targets
Next == hook(Targets, MaxRegistryIds) \/ unhook(Targets) \/ unhookAll

Spec == Init /\ [][Next]_vars

\* one target's chain
NextChain == hook(OneTarget, MaxHookId) \/ unhook(OneTarget) \/ unhookAll

SpecChain == Init /\ [][NextChain]_vars

\* the address resolver
InitResolve ==
    /\ InitHooks
    /\ InitStatics
    /\ InitUndo
    /\ InitThreads
    /\ maps \in MapChoices

NextResolve == resolveIdentifier \/ resolveIdentifierList \/ MapsChange

SpecResolve == InitResolve /\ [][NextResolve]_vars

\* Two runs of the same calls on one target, side by side: the run on
\* (hooks, mem) also installs an entry x, with a detour of its own, and later
\* removes it; the run on (hooksB, memB) never sees x.  The engine answers a
\* call the same way in both runs and never fails.
XDetour == 12

SuccessResults == {r \in EngineResults : r.stub # Null}

\* a hook() of another entry, in both runs
UndoHook ==
    \E target \in OneTarget, detour \in Detours \ {XDetour}, originalFunc \in Slots,
       priority \in Priorities, res \in SuccessResults :
        /\ xphase # "removed"
        /\ IdsInUse < MaxHookId
        /\ LET out == HookCall(hooks, mem, target, detour, originalFunc, priority, res)
               outB == HookCall(hooksB, memB, target, detour, originalFunc, priority, res)
           IN  /\ hooks' = out.hooks /\ mem' = out.mem /\ last' = out.call
               /\ hooksB' = outB.hooks /\ memB' = outB.mem
        /\ UNCHANGED <<xphase, resolverVars, threadVars>>

\* an unhook() of another detour, in both runs
UndoUnhook ==
    \E target \in OneTarget, detour \in Detours \ {XDetour}, res \in SuccessResults :
        /\ xphase # "removed"
        /\ LET out == UnhookCall(hooks, mem, target, detour, res)
               outB == UnhookCall(hooksB, memB, target, detour, res)
           IN  /\ hooks' = out.hooks /\ mem' = out.mem /\ last' = out.call
               /\ hooksB' = outB.hooks /\ memB' = outB.mem
        /\ UNCHANGED <<xphase, resolverVars, threadVars>>

\* hook() of x, in the first run only
UndoInstallX ==
    \E target \in OneTarget, originalFunc \in Slots, priority \in Priorities,
       res \in SuccessResults :
        /\ xphase = "out"
        /\ IdsInUse < MaxHookId
        /\ LET out == HookCall(hooks, mem, target, XDetour, originalFunc, priority, res)
           IN  /\ hooks' = out.hooks /\ mem' = out.mem /\ last' = out.call
        /\ xphase' = "in"
        /\ UNCHANGED <<hooksB, memB, resolverVars, threadVars>>

\* unhook() of x, in the first run only
UndoRemoveX ==
    \E target \in OneTarget, res \in SuccessResults :
        /\ xphase = "in"
        /\ LET out == UnhookCall(hooks, mem, target, XDetour, res)
           IN  /\ hooks' = out.hooks /\ mem' = out.mem /\ last' = out.call
        /\ xphase' = "removed"
        /\ UNCHANGED <<hooksB, memB, resolverVars, threadVars>>

NextUndo == UndoHook \/ UndoUnhook \/ UndoInstallX \/ UndoRemoveX

SpecUndo == Init /\ [][NextUndo]_vars


\* Threads calling hook(), unhook() and unhookAll() concurrently, on one
\* target.  A thread is "idle" outside the three functions, at "entry" once it
\* has called one of them and stands at its std::lock_guard, and in "body"
\* from the moment the guard owns hooksMutex until the function returns; the
\* call's reads and writes of the registry and its engine calls all lie in
\* "body", and the guard releases the mutex at the return.
Enter(th) ==
    /\ pc[th] = "idle"
    /\ pc' = [pc EXCEPT ![th] = "entry"]
    /\ UNCHANGED <<mutex, hookVars, resolverVars, undoVars>>

\* faulty variant: the guard does not wait for the mutex to be free
LockNoWait(th) ==
    /\ pc[th] = "entry"
    /\ mutex' = th
    /\ pc' = [pc EXCEPT ![th] = "body"]
    /\ UNCHANGED <<hookVars, resolverVars, undoVars>>

\* std::lock_guard lock(hooksMutex), the first statement of all three
Lock(th) ==
    /\ pc[th] = "entry"
    /\ mutex = Null
    /\ mutex' = th
    /\ pc' = [pc EXCEPT ![th] = "body"]
    /\ UNCHANGED <<hookVars, resolverVars, undoVars>>

\* the return of the function: the guard's destructor unlocks hooksMutex
Return(th) ==
    /\ mutex' = (IF mutex = th THEN Null ELSE mutex)
    /\ pc' = [pc EXCEPT ![th] = "idle"]

\* the body of hook() run by th
ThreadHook(th) ==
    \E target \in OneTarget, detour \in Detours, originalFunc \in Slots,
       priority \in Priorities, res \in EngineResults :
        /\ pc[th] = "body"
        /\ IdsInUse < MaxThreadIds
        /\ LET out == HookCall(hooks, mem, target, detour, originalFunc, priority, res)
           IN  /\ hooks' = out.hooks
               /\ mem' = out.mem
               /\ last' = out.call
        /\ Return(th)
        /\ UNCHANGED <<resolverVars, undoVars>>

\* the body of unhook() run by th
ThreadUnhook(th) ==
    \E target \in OneTarget \cup {Null}, detour \in Detours :
        \E res \in UnhookEngineResults(hooks, target, detour) :
            /\ pc[th] = "body"
            /\ LET out == UnhookCall(hooks, mem, target, detour, res)
               IN  /\ hooks' = out.hooks
                   /\ mem' = out.mem
                   /\ last' = out.call
            /\ Return(th)
            /\ UNCHANGED <<resolverVars, undoVars>>

\* the body of unhookAll() run by th
ThreadUnhookAll(th) ==
    \E order \in Orders(Registered) :
        /\ pc[th] = "body"
        /\ hooks' = <<>>
        /\ last' = Call("unhookAll", Null, Null, 0,
                         [i \in 1 .. Len(order) |-> UninstallEv(hooks[order[i]].stub)])
        /\ Return(th)
        /\ UNCHANGED <<mem, resolverVars, undoVars>>

NextThreads ==
    \E th \in Threads :
        \/ Enter(th)
        \/ Lock(th)
        \/ ThreadHook(th)
        \/ ThreadUnhook(th)
        \/ ThreadUnhookAll(th)

SpecThreads == Init /\ [][NextThreads]_vars

\* ------------------------------------------------------------ claims
\* the engine calls of the last call, by kind
EngineCalls(call, kind) == SelectSeq(call.trace, LAMBDA e : e.kind = kind)

\* the entries of a chain in the order the claims speak of: ascending
\* (priority, sequence id)
Before(a, b) ==
    a.priority < b.priority \/ (a.priority = b.priority /\ a.id < b.id)

InOrder(S) ==
    CHOOSE s \in [1 .. Cardinality(S) -> S] :
        \A i, j \in 1 .. Cardinality(S) : i < j => Before(s[i], s[j])

\* e1..en wired through their slots, ending at `end`, and entered at e1
Wired(hd, end) ==
    LET s == InOrder(hd.hooks)
        n == Len(s)
    IN  /\ n >= 1 => hd.start = s[1].detour
        /\ \A i \in 1 .. n :
             mem[s[i].originalFunc] = (IF i < n THEN s[i + 1].detour ELSE end)

\* nothing was removed from the chain: every id handed out is still in it
OnlyInstalls(hd) == Cardinality(hd.hooks) = hd.hookId

\* no two entries of the chain were given the same slot
DistinctSlots(hd) ==
    \A a, b \in hd.hooks : a # b => a.originalFunc # b.originalFunc

DistinctEntries(hd) ==
    /\ DistinctSlots(hd)
    /\ \A a, b \in hd.hooks : a # b => a.detour # b.detour

\* C1: after installs only on one target (distinct detours, distinct slots), the
\* walk from start through the slots visits the detours in ascending
\* (priority, registration) order and ends at the chain's origin.
C1_InstallsWalkToOrigin ==
    \A t \in Registered :
        (OnlyInstalls(hooks[t]) /\ DistinctEntries(hooks[t]))
            => Wired(hooks[t], hooks[t].origin)

\* C2: between calls every chain (entries may share a detour; each has a slot
\* of its own) is wired e1 -> e2 -> ... -> en -> the chain's stored origin and
\* is entered at e1.
C2_ChainWiredToStoredOrigin ==
    \A t \in Registered :
        DistinctSlots(hooks[t]) => Wired(hooks[t], hooks[t].origin)

\* C3: no call changes the origin of a chain that is in the registry before and
\* after it.
C3_OriginKeptWhileChainLives ==
    [][\A t \in Registered \cap DOMAIN hooks' : hooks'[t].origin = hooks[t].origin]_vars

\* the engine install calls of a call that returned no stub
FailedInstalls(call) ==
    SelectSeq(call.trace, LAMBDA e : e.kind = "install" /\ e.stub = Null)

\* C4: a hook() whose engine install failed returns failure and leaves the
\* registry and every slot as they were.
C4_FailedInstallLeavesState ==
    [][(last'.op = "hook" /\ FailedInstalls(last') # <<>>)
          => (last'.ret = -1 /\ hooks' = hooks /\ mem' = mem)]_vars

\* C5: the unhook() that removes a chain's last entry calls the engine's
\* uninstall once, with the chain's stub, and erases the target; a hook() on a
\* target without a chain builds a new one: ids start at 1 again and stub and
\* origin are those of the one engine install of that call.
C5_LastUnhookReleasesAndRehookIsFresh ==
    [][LET t == last'.target
       IN  /\ (last'.op = "unhook" /\ last'.ret = 1
                  /\ Cardinality(hooks[t].hooks) = 1)
                 => /\ t \notin DOMAIN hooks'
                    /\ EngineCalls(last', "uninstall") = <<UninstallEv(hooks[t].stub)>>
                    /\ EngineCalls(last', "install") = <<>>
           /\ (last'.op = "hook" /\ last'.ret = 0 /\ t \notin Registered)
                 => /\ t \in DOMAIN hooks'
                    /\ hooks'[t].hookId = 1
                    /\ {e.id : e \in hooks'[t].hooks} = {1}
                    /\ \E ev \in Handles \X Origins :
                         /\ EngineCalls(last', "install")
                                = <<InstallEv(t, last'.detour, ev[1], ev[2])>>
                         /\ hooks'[t].stub = ev[1]
                         /\ hooks'[t].origin = ev[2]
                    /\ EngineCalls(last', "uninstall") = <<>>]_vars

\* a chain that had held two entries was just emptied by unhook() and erased:
\* the call wrote no slot and its one engine call is the uninstall
C5_Witness ==
    /\ last.op = "unhook" /\ last.ret = 1
    /\ last.target \notin Registered
    /\ Len(last.trace) = 1
    /\ Len(EngineCalls(last, "uninstall")) = 1
    /\ \E s \in Slots : mem[s] \in Detours

\* C6: a successful unhook(target, detour) removes exactly the entry that is
\* lowest in (priority, id) order among those with that detour.
C6_UnhookRemovesLowestMatch ==
    [][(last'.op = "unhook" /\ last'.ret = 1)
          => LET t == last'.target
                 M == {e \in hooks[t].hooks : e.detour = last'.detour}
                 x == CHOOSE x \in M : \A o \in M \ {x} : Before(x, o)
                 rest == IF t \in DOMAIN hooks' THEN hooks'[t].hooks ELSE {}
             IN  rest = hooks[t].hooks \ {x}]_vars

\* after unhook(target, d) the chain still holds the entry registered first,
\* which has detour d: the entry removed was registered later, with the same
\* detour and a lower priority value
C6_Witness ==
    /\ last.op = "unhook" /\ last.ret = 1
    /\ last.target \in Registered
    /\ \E e \in hooks[last.target].hooks : e.detour = last.detour /\ e.id = 1

\* C7: once x has been installed and removed again, the chain is entered at
\* the same start and every remaining entry's slot holds the same value as in
\* the run of the same calls in which x was never installed.
C7_UndoRestoresWiring ==
    xphase = "removed"
        => /\ Registered = DOMAIN hooksB
           /\ \A t \in Registered :
                /\ hooks[t].start = hooksB[t].start
                /\ \A e \in hooks[t].hooks :
                     mem[e.originalFunc] = memB[e.originalFunc]

\* C8: unhook() with a null target, a target without a chain or a detour that
\* is not in the chain returns false; an unhook() that returns false leaves
\* registry and slots alone and makes no engine call.
C8_FailedUnhookChangesNothing ==
    [][last'.op = "unhook"
          => LET t == last'.target
             IN  /\ (t = Null \/ t \notin Registered
                        \/ \A e \in hooks[t].hooks : e.detour # last'.detour)
                       => last'.ret = 0
                 /\ last'.ret = 0
                       => (hooks' = hooks /\ mem' = mem /\ last'.trace = <<>>)]_vars

\* unhook() just failed on a target that has a chain (the detour is not in it)
C8_Witness ==
    /\ last.op = "unhook" /\ last.ret = 0
    /\ last.target \in Registered

\* C9: between calls every chain in the registry has an entry, and the target
\* of a hook() that succeeded is in the registry.
C9_RegisteredIffHasEntries ==
    /\ \A t \in Registered : hooks[t].hooks # {}
    /\ (last.op = "hook" /\ last.ret = 0) => last.target \in Registered

\* a hook() just failed while the registry holds a chain
C9_Witness ==
    /\ last.op = "hook" /\ last.ret = -1
    /\ Registered # {}

\* C10: resolveIdentifier over a list passes the identifiers to the matcher in
\* list order, stops at the first one the matcher resolves and returns its
\* address; it returns null only when none resolved (every identifier was
\* tried, or the module bounds are missing and none could be).
C10_FirstResolvedWins ==
    rlast.op = "list"
        => LET ids == rlast.ids
               calls == rlast.calls
               k == Len(calls)
           IN  /\ k <= Len(ids)
               /\ \A i \in 1 .. k : calls[i].id = ids[i]
               /\ \A i \in 1 .. (k - 1) : calls[i].result = 0
               /\ rlast.ret # Null => (k >= 1 /\ calls[k].result = rlast.ret)
               /\ rlast.ret = Null
                     => /\ \A i \in 1 .. k : calls[i].result = 0
                        /\ k = Len(ids) \/ (k = 0 /\ (base = 0 \/ size = 0))

\* [a, b, c]: a failed, b resolved and was returned, c was not tried
C10_Witness ==
    /\ rlast.op = "list"
    /\ Len(rlast.ids) = 3
    /\ Len(rlast.calls) = 2
    /\ rlast.calls[1].result = 0
    /\ rlast.ret # Null
    /\ rlast.ret = rlast.calls[2].result

\* C11: unhookAll() calls the engine's uninstall once for each chain of the
\* registry, with that chain's stub, makes no other engine call, and leaves the
\* registry empty; the hook() that follows it, whatever its target, takes the
\* first-install path: its first step is the engine install of its own detour
\* and, when it succeeds, the chain it registers starts at id 1.
C11_UnhookAllReleasesEveryChain ==
    [][/\ last'.op = "unhookAll"
            => /\ hooks' = <<>>
               /\ \E order \in Orders(Registered) :
                    last'.trace
                        = [i \in 1 .. Len(order) |-> UninstallEv(hooks[order[i]].stub)]
       /\ (last.op = "unhookAll" /\ last'.op = "hook")
            => /\ Len(last'.trace) >= 1
               /\ last'.trace[1].kind = "install"
               /\ last'.trace[1].target = last'.target
               /\ last'.trace[1].addr = last'.detour
               /\ Len(EngineCalls(last', "install")) = 1
               /\ last'.ret = 0
                    => /\ DOMAIN hooks' = {last'.target}
                       /\ hooks'[last'.target].hookId = 1
                       /\ hooks'[last'.target].stub = last'.trace[1].stub]_vars

\* unhookAll() just released two chains, whose stubs differ
C11_Witness ==
    /\ last.op = "unhookAll"
    /\ Registered = {}
    /\ Len(last.trace) = 2
    /\ last.trace[1].stub # last.trace[2].stub

\* C12: in every hook() and unhook(), the first install on a target included,
\* every slot write of the call comes before the call's engine install.
C12_WritesPrecedeInstall ==
    last.op \in {"hook", "unhook"}
        => \A i, j \in 1 .. Len(last.trace) :
             (i < j /\ last.trace[i].kind = "install") => last.trace[j].kind # "write"

\* the slot writes of a call, in order
SlotWrites(call) == SelectSeq(call.trace, LAMBDA e : e.kind = "write")

\* C13: a hook() or unhook() that recomputes a chain (its entries each with a
\* slot of their own) writes every entry's slot exactly once, with the value
\* the slot holds when the call returns.
C13_EachSlotWrittenOnce ==
    (last.op \in {"hook", "unhook"} /\ SlotWrites(last) # <<>>
        /\ last.target \in Registered /\ DistinctSlots(hooks[last.target]))
        => \A e \in hooks[last.target].hooks :
             SelectSeq(last.trace, LAMBDA w : w.kind = "write" /\ w.addr = e.originalFunc)
                 = <<WriteEv(e.originalFunc, mem[e.originalFunc])>>

\* the lowest-ordered entry of a non-empty chain
Lowest(S) == InOrder(S)[1]

\* C14: hook() on an existing chain calls the engine install only when the new
\* entry became the lowest-ordered one; unhook() on a chain that stays
\* non-empty calls it only when the entry it removed was the lowest-ordered one.
C14_InstallOnlyWhenStartChanges ==
    [][LET t == last'.target
       IN  /\ (last'.op = "hook" /\ t \in Registered
                  /\ EngineCalls(last', "install") # <<>>)
                 => Lowest(hooks'[t].hooks) # Lowest(hooks[t].hooks)
           /\ (last'.op = "unhook" /\ last'.ret = 1 /\ t \in DOMAIN hooks'
                  /\ EngineCalls(last', "install") # <<>>)
                 => Lowest(hooks[t].hooks) \notin hooks'[t].hooks]_vars

\* the engine installs a call issued for target t, in order
InstallsFor(call, t) ==
    SelectSeq(call.trace, LAMBDA e : e.kind = "install" /\ e.target = t)

\* C15: between calls every chain's start is the detour of its lowest-ordered
\* entry and is the detour of the most recent engine install for the target
\* (a call either issues an install with the start it leaves, or issues none
\* and leaves the start alone); and after install(T, D1, low),
\* install(T, D2, high), remove(T, D2) the slot of D1 holds the chain's origin.
C15_InstalledDetourIsStart ==
    [][\A t \in DOMAIN hooks' :
          LET ins == InstallsFor(last', t)
              hd == hooks'[t]
          IN  /\ hd.start = Lowest(hd.hooks).detour
              /\ IF ins # <<>>
                 THEN ins[Len(ins)].addr = hd.start
                 ELSE t \in Registered /\ hd.start = hooks[t].start
              /\ (/\ last'.op = "unhook" /\ last'.ret = 1 /\ last'.target = t
                  /\ t \in Registered
                  /\ OnlyInstalls(hooks[t]) /\ Cardinality(hooks[t].hooks) = 2
                  /\ hd.hooks = {Lowest(hooks[t].hooks)})
                    => mem'[Lowest(hd.hooks).originalFunc] = hd.origin]_vars

\* C16: a chain's stored stub is the handle of the most recent successful
\* engine install for its target, so that the uninstall issued when the chain
\* is destroyed releases what the engine last handed out.
C16_StubIsLatestHandle ==
    [][\A t \in DOMAIN hooks' :
          LET ok == SelectSeq(InstallsFor(last', t), LAMBDA e : e.stub # Null)
          IN  ok # <<>> => hooks'[t].stub = ok[Len(ok)].stub]_vars

\* C17: a thread past the lock_guard of hook(), unhook() or unhookAll() owns
\* hooksMutex until it returns, so no two threads are inside the bodies (where
\* the registry is read and written and the engine is called) at once.
C17_OneThreadInsideAtATime ==
    /\ \A th \in Threads : pc[th] = "body" => mutex = th
    /\ \A a, b \in Threads : (pc[a] = "body" /\ pc[b] = "body") => a = b
    /\ mutex # Null => pc[mutex] = "body"

\* one thread is inside a call on a registry that holds a chain while the
\* other stands at the lock_guard
C17_Witness ==
    /\ Registered # {}
    /\ \E a, b \in Threads : pc[a] = "body" /\ pc[b] = "entry"

C19_BoundsScannedOnce ==
    [][/\ initialized => (initialized' /\ base' = base /\ size' = size)
       /\ (~initialized /\ initialized')
            => /\ base' \in {getLibBase(maps), 0}
               /\ size' \in {getLibSize(maps), 0}
       /\ rlast' # rlast
            => /\ \A i \in 1 .. Len(rlast'.calls) :
                    rlast'.calls[i].base = base' /\ rlast'.calls[i].size = size'
               /\ (initialized /\ (base = 0 \/ size = 0))
                    => (rlast'.ret = Null /\ rlast'.calls = <<>>)]_vars

\* the matcher was called with cached bounds that a scan of the map as it is
\* now would not give
C19_Witness ==
    /\ initialized
    /\ rlast.calls # <<>>
    /\ rlast.calls[1].base = base /\ rlast.calls[1].size = size
    /\ <<base, size>> # <<getLibBase(maps), getLibSize(maps)>>

\* the slots of the entries a target's chain holds in registry reg
LiveSlots(reg, t) ==
    IF t \in DOMAIN reg THEN {e.originalFunc : e \in reg[t].hooks} ELSE {}

\* C20: a call writes only slots of entries that are in its target's chain
\* when it returns: the slot of an entry unhook() removed is written neither by
\* that unhook() nor by a later call, unless an entry in the chain has the same
\* slot; unhookAll() and the unhook() that empties a chain write no slot; and
\* no slot changes without such a write.
C20_RemovedSlotLeftAlone ==
    [][/\ \A i \in 1 .. Len(SlotWrites(last')) :
            SlotWrites(last')[i].addr \in LiveSlots(hooks', last'.target)
       /\ last'.op = "unhookAll" => SlotWrites(last') = <<>>
       /\ (last'.op = "unhook" /\ last'.target \notin DOMAIN hooks')
            => SlotWrites(last') = <<>>
       /\ \A s \in Slots :
            mem'[s] # mem[s]
                => \E i \in 1 .. Len(SlotWrites(last')) : SlotWrites(last')[i].addr = s]_vars

\* unhook() just removed an entry from a chain that lives on; the removed
\* entry's slot, written while it was in the chain, belongs to no remaining
\* entry and the call rewired the others
C20_Witness ==
    /\ last.op = "unhook" /\ last.ret = 1
    /\ last.target \in Registered
    /\ SlotWrites(last) # <<>>
    /\ \E s \in Slots \ LiveSlots(hooks, last.target) : mem[s] # Null
====
